---- MODULE Spec2Model ----
(***************************************************************************)
(* The clock/reset generator of the LiteDRAM Arty A7 bench                 *)
(* (bench/arty.py: _CRG, BenchSoC, main) as a state machine.               *)
(*                                                                         *)
(* _CRG is a hardware description: two cascaded PLLs (main_pll, pll), six  *)
(* clock domains, an IDELAYCTRL on the 200 MHz domain and a 32-bit cycle   *)
(* counter in the sys domain.  A step of the model is one hardware event:  *)
(* a change of the cpu_reset pin, a PLL gaining or losing lock, or one     *)
(* rising edge of one clock domain (the sys edge carries the CSR bus       *)
(* operation of that cycle).  Combinational assignments (self.comb) are    *)
(* operators over the state; asynchronous effects (a PLL's LOCKED falling  *)
(* with its RST, a reset synchroniser's preset) are applied inside the     *)
(* action that causes them.                                                *)
(*                                                                         *)
(* Frequencies are integers in MHz; derived frequencies are kept as        *)
(* fractions <<numerator, denominator>>.                                   *)
(*                                                                         *)
(* Spec follows the hardware under every bus master.  BenchSpec follows    *)
(* main() from its command line through build, load and the frequency      *)
(* sweep, together with the pin and lock events the sweep observes;        *)
(* BenchFairSpec adds that main() keeps taking its steps.                  *)
(***************************************************************************)
EXTENDS Integers, Sequences, FiniteSets, TLC

VARIABLES
    cpu_reset,           \* level of the cpu_reset pin (TRUE: system ready)
    main_pll_locked,     \* main_pll.locked
    pll_locked,          \* pll.locked
    rst_meta,            \* first flop of each domain's reset synchroniser
    rst,                 \* ClockDomain.rst of each domain
    sys_clk_counter,     \* Signal(32) incremented in the sys domain
    reset_counter,       \* S7IDELAYCTRL reset counter (clk200 domain)
    ic_reset,            \* S7IDELAYCTRL reset to the IDELAYCTRL primitive
    main_clkout0_divide, \* divider of main_pll's clkout0, rewritable by DRP
    ev,                  \* the last event: what the step just taken was, with
                         \* the CSR access of the cycle and the data it returned
    reset_seen,          \* history: cpu_reset has been asserted since power-on
    clk200_edges,        \* history: clk200 edges since main_pll locked (capped)
    args,                \* main(): the parsed command line (--build --load --test)
    main_pc,             \* main(): the statement it is at
    calls,               \* history: the steps main() has carried out, in order
    sweep_state,         \* the sweep: state of its state machine
    cand,                \* the sweep: the candidate frequency it is at (MHz)
    polls,               \* the sweep: polls of LockState made in AwaitingLock
    request,             \* the sweep: what became of its last port request
    sweep_result,        \* SweepResult: requested frequency of each entry
    last_entry           \* SweepResult: the entry appended last, in full

crgVars == <<cpu_reset, main_pll_locked, pll_locked, rst_meta, rst,
             sys_clk_counter, reset_counter, ic_reset, main_clkout0_divide,
             ev, reset_seen, clk200_edges>>

benchVars == <<args, main_pc, calls, sweep_state, cand, polls, request,
               sweep_result, last_entry>>

vars == <<crgVars, benchVars>>

----------------------------------------------------------------------------
(* Bounds of the model *)

\* sys edges are followed while the counter is below MaxCount or within
\* WrapLead of 2^32
MaxCount == 3
WrapLead == 2

\* polls of LockState the sweep makes before it gives a candidate up
MaxPolls == 2

----------------------------------------------------------------------------
(* Constants of the program *)

\* Signal(32).  A 32-bit value is kept as its two 16-bit halves [hi, lo]
\* (value = hi * 2^16 + lo): TLC's integers are 32-bit signed.
CounterWidth == 32
HalfMod == 2 ^ (CounterWidth \div 2)
Word(h, l) == [hi |-> h, lo |-> l]
Zero32 == Word(0, 0)
Max32 == Word(HalfMod - 1, HalfMod - 1)
\* (c + 1) truncated to 32 bits
Inc32(c) ==
    IF c.lo = HalfMod - 1 THEN Word((c.hi + 1) % HalfMod, 0)
    ELSE Word(c.hi, c.lo + 1)

Clk100Freq == 100
SysClkFreq == 150
Clk200Freq == 200
UartFreq == 100
Sys4xRatio == 4
DqsPhase == 90

\* S7PLL(speedgrade=-1): ranges of the 7-series PLL
VcoFreqMin == 800
VcoFreqMax == 1600
DivclkDivideMax == 56
ClkfboutMultMin == 2
ClkfboutMultMax == 64
ClkoutDivideMax == 128
\* create_clkout's default margin is 1e-2: 1 / MarginInv
MarginInv == 100

\* S7IDELAYCTRL(cd): reset_cycles
IdelayResetCycles == 16
\* flops in an AsyncResetSynchronizer
SyncStages == 2

----------------------------------------------------------------------------
(* The clock domains of _CRG and the PLL that drives each *)

Domains == {"sys_pll", "sys", "sys4x", "sys4x_dqs", "clk200", "uart"}

\* ClockDomain(reset_less=True) for sys4x and sys4x_dqs, ClockDomain() otherwise
reset_lessWithout == [d \in Domains |-> FALSE]
reset_less == [d \in Domains |-> d \in {"sys4x", "sys4x_dqs"}]

\* the create_clkout calls: outputs of main_pll and of pll, in call order
MainClkoutsClk200First ==
    << [cd |-> "clk200", freq |-> Clk200Freq, phase |-> 0],
       [cd |-> "sys_pll", freq |-> SysClkFreq, phase |-> 0],
       [cd |-> "uart", freq |-> UartFreq, phase |-> 0] >>
MainClkouts ==
    << [cd |-> "sys_pll", freq |-> SysClkFreq, phase |-> 0],
       [cd |-> "clk200",  freq |-> Clk200Freq, phase |-> 0],
       [cd |-> "uart",    freq |-> UartFreq,   phase |-> 0] >>

PllClkoutsHalf ==
    << [cd |-> "sys",       freq |-> SysClkFreq,     phase |-> 0],
       [cd |-> "sys4x",     freq |-> 2 * SysClkFreq, phase |-> 0],
       [cd |-> "sys4x_dqs", freq |-> 2 * SysClkFreq, phase |-> DqsPhase] >>
PllClkouts ==
    << [cd |-> "sys",       freq |-> SysClkFreq,              phase |-> 0],
       [cd |-> "sys4x",     freq |-> Sys4xRatio * SysClkFreq, phase |-> 0],
       [cd |-> "sys4x_dqs", freq |-> Sys4xRatio * SysClkFreq, phase |-> DqsPhase] >>

ClkoutDomains(clkouts) == {clkouts[i].cd : i \in 1..Len(clkouts)}

\* the PLL instance a domain's clock comes from
Source(d) == IF d \in ClkoutDomains(MainClkouts) THEN "main_pll" ELSE "pll"

ClkoutIndex(clkouts, d) == CHOOSE i \in 1..Len(clkouts) : clkouts[i].cd = d

----------------------------------------------------------------------------
(* S7PLL.compute_config: the first (divclk_divide ascending, clkfbout_mult  *)
(* descending) setting whose VCO is in range and for which every output    *)
(* has a divider that brings it within the margin of its target; each      *)
(* output takes the smallest such divider.  The loops are written as the   *)
(* least/greatest element they return.  vco = clkin*mult/divclk, so        *)
(* |vco/d - f| <= f*m is compared after multiplying through by divclk*d.   *)

Abs(x) == IF x < 0 THEN -x ELSE x

VcoInRange(clkin, divclk, mult) ==
    /\ clkin * mult >= VcoFreqMin * divclk
    /\ clkin * mult <= VcoFreqMax * divclk

WithinMargin(clkin, divclk, mult, d, f) ==
    MarginInv * Abs(clkin * mult - f * divclk * d) <= f * divclk * d

Min(S) == CHOOSE x \in S : \A y \in S : x <= y
Max(S) == CHOOSE x \in S : \A y \in S : x >= y

\* for d in range(*clkout_divide_range): the first d within the margin; 0 if none
ClkoutDivide(clkin, divclk, mult, f) ==
    LET fit == {d \in 1..ClkoutDivideMax : WithinMargin(clkin, divclk, mult, d, f)}
    IN  IF fit = {} THEN 0 ELSE Min(fit)

\* the divider of every output for one (divclk, mult); 0 where none fits
ClkoutDivides(clkin, clkouts, divclk, mult) ==
    [i \in 1..Len(clkouts) |->
        ClkoutDivide(clkin, divclk, mult, clkouts[i].freq)]

\* all_valid of one (divclk_divide, clkfbout_mult)
AllValid(clkin, clkouts, divclk, mult) ==
    /\ VcoInRange(clkin, divclk, mult)
    /\ \A i \in 1..Len(clkouts) :
          ClkoutDivide(clkin, divclk, mult, clkouts[i].freq) # 0

NoConfig == [valid |-> FALSE, divclk_divide |-> 0, clkfbout_mult |-> 0,
             clkout_divide |-> << >>, clkout_phase |-> << >>]

\* for clkfbout_mult in reversed(range(*clkfbout_mult_frange)): the first valid
TryMult(clkin, clkouts, divclk) ==
    LET ok == {m \in ClkfboutMultMin..ClkfboutMultMax :
                  AllValid(clkin, clkouts, divclk, m)}
    IN  IF ok = {} THEN NoConfig
        ELSE [valid |-> TRUE, divclk_divide |-> divclk,
              clkfbout_mult |-> Max(ok),
              clkout_divide |-> ClkoutDivides(clkin, clkouts, divclk, Max(ok)),
              clkout_phase |-> [i \in 1..Len(clkouts) |-> clkouts[i].phase]]

\* for divclk_divide in range(*divclk_divide_range): the first with a valid
\* multiplier; "No PLL config found" is NoConfig
TryDivclk(clkin, clkouts) ==
    LET ok == {dv \in 1..DivclkDivideMax : TryMult(clkin, clkouts, dv).valid}
    IN  IF ok = {} THEN NoConfig ELSE TryMult(clkin, clkouts, Min(ok))

compute_config(clkin, clkouts) == TryDivclk(clkin, clkouts)

\* main_pll.register_clkin(clk100, 100e6); pll.register_clkin(cd_sys_pll.clk, sys_clk_freq)
MainConfig == compute_config(Clk100Freq, MainClkouts)
PllConfig == compute_config(SysClkFreq, PllClkouts)

\* the vco_freq handed to the sweep: main_pll.compute_config()["vco"], in MHz
MainVcoFreqClkin == Clk100Freq
MainVcoFreq == (Clk100Freq * MainConfig.clkfbout_mult) \div MainConfig.divclk_divide

----------------------------------------------------------------------------
(* Combinational signals (self.comb) and what the PLL primitives give *)

\* self.comb += main_pll.reset.eq(~platform.request("cpu_reset"))
MainPllResetDirect(cr) == cr
MainPllResetOf(cr) == ~cr
main_pll_reset == MainPllResetOf(cpu_reset)

\* self.comb += pll.reset.eq(~main_pll.locked)
PllResetUndriven(ml) == FALSE
PllResetOf(ml) == ~ml
pll_reset == PllResetOf(main_pll_locked)

\* self.comb += self.sys_clk_counter.status.eq(sys_clk_counter)
sys_clk_counter_status == sys_clk_counter

\* RST and LOCKED of the PLL instance p
PllReset(p) == IF p = "main_pll" THEN main_pll_reset ELSE pll_reset
Locked(p) == IF p = "main_pll" THEN main_pll_locked ELSE pll_locked

\* a PLL in reset holds its outputs low: the domain sees no edge
ClockActiveFreeRunning(d) == TRUE
ClockActive(d) == ~PllReset(Source(d))

\* an edge of d counts for its consumers when d is out of reset; a reset-less
\* domain has only the lock of its source stage
Valid(d) ==
    /\ ClockActive(d)
    /\ IF reset_less[d] THEN Locked(Source(d)) ELSE ~rst[d]

\* achieved frequency of a domain, as a fraction <<num, den>> of MHz
ClkoutDivideOf(d) ==
    IF Source(d) = "main_pll"
    THEN IF ClkoutIndex(MainClkouts, d) = 1 THEN main_clkout0_divide
         ELSE MainConfig.clkout_divide[ClkoutIndex(MainClkouts, d)]
    ELSE PllConfig.clkout_divide[ClkoutIndex(PllClkouts, d)]

MainFreq(d) == << Clk100Freq * MainConfig.clkfbout_mult,
                  MainConfig.divclk_divide * ClkoutDivideOf(d) >>

Freq(d) ==
    IF Source(d) = "main_pll" THEN MainFreq(d)
    ELSE << MainFreq("sys_pll")[1] * PllConfig.clkfbout_mult,
            MainFreq("sys_pll")[2] * PllConfig.divclk_divide * ClkoutDivideOf(d) >>

Phase(d) ==
    IF Source(d) = "main_pll"
    THEN MainConfig.clkout_phase[ClkoutIndex(MainClkouts, d)]
    ELSE PllConfig.clkout_phase[ClkoutIndex(PllClkouts, d)]

----------------------------------------------------------------------------
(* Asynchronous settling: LOCKED falls with RST, and create_clkout's       *)
(* AsyncResetSynchronizer(cd, ~locked) presets both of its flops while its *)
(* PLL is not locked.  ml and pl are the lock levels the hardware would    *)
(* otherwise have; cr is the level of the cpu_reset pin.                   *)

SettledMainHolds(cr, ml) == ml
SettledMain(cr, ml) == ml /\ ~MainPllResetOf(cr)
SettledPll(cr, ml, pl) == pl /\ ~PllResetOf(SettledMain(cr, ml))

AsyncResetFromMain(d, cr, ml, pl) == ~SettledMain(cr, ml)
AsyncReset(d, cr, ml, pl) ==
    IF Source(d) = "main_pll" THEN ~SettledMain(cr, ml)
    ELSE ~SettledPll(cr, ml, pl)

Preset(f, cr, ml, pl) ==
    [d \in Domains |->
        IF ~reset_less[d] /\ AsyncReset(d, cr, ml, pl) THEN TRUE ELSE f[d]]

NoOp == [kind |-> "idle", reg |-> "-", dat |-> Zero32]
\* again: the step is a DRP write that repeats the DRP write of the sys edge
\* just before it (set by SysTick only)
Event(k, d, o) == [kind |-> k, dom |-> d, op |-> o, again |-> FALSE]

\* a lock or pin event: new pin level cr and lock levels ml, pl
Settle(k, cr, ml, pl) ==
    /\ cpu_reset' = cr
    /\ main_pll_locked' = SettledMain(cr, ml)
    /\ pll_locked' = SettledPll(cr, ml, pl)
    /\ rst_meta' = Preset(rst_meta, cr, ml, pl)
    /\ rst' = Preset(rst, cr, ml, pl)
    /\ reset_seen' = (reset_seen \/ ~cr)
    /\ clk200_edges' = IF SettledMain(cr, ml) /\ main_pll_locked
                       THEN clk200_edges ELSE 0
    /\ ev' = Event(k, "-", NoOp)
    /\ UNCHANGED <<sys_clk_counter, reset_counter, ic_reset,
                   main_clkout0_divide>>

----------------------------------------------------------------------------
(* Events on the pin and in the PLLs *)

\* the board's cpu_reset input changes level
CpuReset(level) ==
    /\ level # cpu_reset
    /\ Settle(IF level THEN "reset_release" ELSE "reset_assert",
              level, main_pll_locked, pll_locked)

\* main_pll reaches lock (hardware feedback), only while out of reset
MainPllLock ==
    /\ ~main_pll_reset
    /\ ~main_pll_locked
    /\ Settle("main_lock", cpu_reset, TRUE, pll_locked)

\* main_pll drops lock (input disturbance, divider rewritten through the DRP)
MainPllLoseLock ==
    /\ main_pll_locked
    /\ Settle("main_lose_lock", cpu_reset, FALSE, pll_locked)

\* the cascade pll reaches lock, only while out of reset
PllLock ==
    /\ ~pll_reset
    /\ ~pll_locked
    /\ Settle("pll_lock", cpu_reset, main_pll_locked, TRUE)

\* the cascade pll drops lock (its input frequency changed under it)
PllLoseLock ==
    /\ pll_locked
    /\ Settle("pll_lose_lock", cpu_reset, main_pll_locked, FALSE)

----------------------------------------------------------------------------
(* Clock edges *)

\* one edge of d's reset synchroniser: D=0 into the first flop, the first
\* flop into ClockDomain.rst, the preset overriding both
SyncMeta(d) ==
    IF reset_less[d] THEN rst_meta[d]
    ELSE AsyncReset(d, cpu_reset, main_pll_locked, pll_locked)

SyncRst(d) ==
    IF reset_less[d] THEN rst[d]
    ELSE AsyncReset(d, cpu_reset, main_pll_locked, pll_locked) \/ rst_meta[d]

\* S7IDELAYCTRL on one clk200 edge: the domain reset reloads the counter and
\* ic_reset; otherwise the counter runs down and then ic_reset is released
IdelayNextImmediate(rc, ic, r) ==
    IF r THEN [reset_counter |-> IdelayResetCycles - 1, ic_reset |-> TRUE]
    ELSE [reset_counter |-> rc, ic_reset |-> FALSE]
IdelayNext(rc, ic, r) ==
    IF r THEN [reset_counter |-> IdelayResetCycles - 1, ic_reset |-> TRUE]
    ELSE IF rc # 0 THEN [reset_counter |-> rc - 1, ic_reset |-> ic]
    ELSE [reset_counter |-> rc, ic_reset |-> FALSE]

\* clk200 edges the S7IDELAYCTRL needs after lock before it releases ic_reset
IdelayLatency == SyncStages + IdelayResetCycles

\* an edge of a domain other than sys
Tick(d) ==
    /\ d \in Domains \ {"sys"}
    /\ ClockActive(d)
    /\ rst_meta' = [rst_meta EXCEPT ![d] = SyncMeta(d)]
    /\ rst' = [rst EXCEPT ![d] = SyncRst(d)]
    /\ IF d = "clk200"
       THEN /\ reset_counter' = IdelayNext(reset_counter, ic_reset, rst[d]).reset_counter
            /\ ic_reset' = IdelayNext(reset_counter, ic_reset, rst[d]).ic_reset
            /\ clk200_edges' = IF ~main_pll_locked THEN clk200_edges
                               ELSE IF clk200_edges < IdelayLatency
                                    THEN clk200_edges + 1 ELSE clk200_edges
       ELSE UNCHANGED <<reset_counter, ic_reset, clk200_edges>>
    /\ ev' = Event("tick", d, NoOp)
    /\ UNCHANGED <<cpu_reset, main_pll_locked, pll_locked, sys_clk_counter,
                   main_clkout0_divide, reset_seen>>

\* self.sync += sys_clk_counter.eq(sys_clk_counter + 1), Signal(32), cleared
\* by the sys domain's reset; the CSR bus operation of the cycle plays no part
NextCounterSaturating(c, r, op) ==
    IF r THEN Zero32 ELSE IF c = Max32 THEN c ELSE Inc32(c)
NextCounterWritable(c, r, op) ==
    IF r THEN Zero32
    ELSE IF op.kind = "write" /\ op.reg = "sys_clk_counter" THEN op.dat
    ELSE Inc32(c)
NextCounter(c, r, op) == IF r THEN Zero32 ELSE Inc32(c)

\* candidate frequencies of the sweep (a sample of range(60e6, 150e6, 1e6)) and
\* the clkout0 dividers the sweep writes for them: int(vco_freq/sys_clk_freq)
SweepFreqs == {60, 149}
DrpDivides == {MainVcoFreq \div f : f \in SweepFreqs}
WriteData == {Zero32}

\* the CSRs of _CRG: sys_clk_counter (CSRStatus), main_pll's DRP registers
BusOps ==
    {NoOp}
    \cup {[kind |-> "read", reg |-> r, dat |-> Zero32] :
             r \in {"sys_clk_counter", "main_pll_drp_locked", "main_pll_drp"}}
    \cup {[kind |-> "write", reg |-> "sys_clk_counter", dat |-> v] : v \in WriteData}
    \cup {[kind |-> "write", reg |-> "main_pll_drp", dat |-> Word(0, v)] : v \in DrpDivides}

\* the DRP register of clkout0 reads back as the divider it holds
RegValueStuck(r) ==
    IF r = "sys_clk_counter" THEN sys_clk_counter_status
    ELSE IF r = "main_pll_drp" THEN Word(0, main_clkout0_divide)
    ELSE Word(0, 1)
RegValue(r) ==
    IF r = "sys_clk_counter" THEN sys_clk_counter_status
    ELSE IF r = "main_pll_drp" THEN Word(0, main_clkout0_divide)
    ELSE IF main_pll_locked THEN Word(0, 1) ELSE Zero32

DrpWrite(op) == op.kind = "write" /\ op.reg = "main_pll_drp"

\* the divider of main_pll's clkout0 after a bus operation: a DRP write
\* replaces the whole register in one DCLK cycle, anything else leaves it
DrpApplyHighTime(div, op) ==
    IF DrpWrite(op) THEN ((op.dat.lo + 1) \div 2) + (div \div 2) ELSE div
DrpApplyAdd(div, op) ==
    IF DrpWrite(op) THEN (div + op.dat.lo) % (ClkoutDivideMax + 1) ELSE div
DrpApply(div, op) == IF DrpWrite(op) THEN op.dat.lo ELSE div

\* the access as the bus master sees it: a read carries the register's value
SysEdge(e) == e.kind = "tick" /\ e.dom = "sys"

BusResult(op) ==
    IF op.kind = "read" THEN [op EXCEPT !.dat = RegValue(op.reg)] ELSE op

InWindow(c) ==
    \/ c.hi = 0 /\ c.lo < MaxCount
    \/ c.hi = HalfMod - 1 /\ c.lo >= HalfMod - WrapLead

\* an edge of sys: the counter, the reset synchroniser, and the CSR access
\* of this cycle (the bus is in the sys domain; in reset it does nothing)
SysTick(op) ==
    /\ ClockActive("sys")
    /\ op \in BusOps
    /\ rst["sys"] => op = NoOp
    /\ InWindow(NextCounter(sys_clk_counter, rst["sys"], op))
    /\ sys_clk_counter' = NextCounter(sys_clk_counter, rst["sys"], op)
    /\ rst_meta' = [rst_meta EXCEPT !["sys"] = SyncMeta("sys")]
    /\ rst' = [rst EXCEPT !["sys"] = SyncRst("sys")]
    /\ main_clkout0_divide' = DrpApply(main_clkout0_divide, op)
    /\ ev' = [Event("tick", "sys", BusResult(op)) EXCEPT
                 !.again = DrpWrite(op) /\ SysEdge(ev) /\ ev.op = op]
    /\ UNCHANGED <<cpu_reset, main_pll_locked, pll_locked, reset_counter,
                   ic_reset, reset_seen, clk200_edges>>

----------------------------------------------------------------------------
(* Initial states *)

\* power-on: flops at their INIT/reset values, no PLL locked yet
PowerOn ==
    /\ cpu_reset \in BOOLEAN
    /\ main_pll_locked = FALSE
    /\ pll_locked = FALSE
    /\ rst_meta = [d \in Domains |-> ~reset_less[d]]
    /\ rst = [d \in Domains |-> ~reset_less[d]]
    /\ sys_clk_counter = Zero32
    /\ reset_counter = IdelayResetCycles - 1
    /\ ic_reset = TRUE
    /\ main_clkout0_divide = MainConfig.clkout_divide[1]
    /\ ev = Event("power_on", "-", NoOp)
    /\ reset_seen = ~cpu_reset
    /\ clk200_edges = 0

\* the same system after it has run undisturbed for 2^32 - WrapLead sys
\* cycles: everything locked and released, the counter about to wrap
LongRun ==
    /\ cpu_reset = TRUE
    /\ main_pll_locked = TRUE
    /\ pll_locked = TRUE
    /\ rst_meta = [d \in Domains |-> FALSE]
    /\ rst = [d \in Domains |-> FALSE]
    /\ sys_clk_counter = Word(HalfMod - 1, HalfMod - WrapLead)
    /\ reset_counter = 0
    /\ ic_reset = FALSE
    /\ main_clkout0_divide = MainConfig.clkout_divide[1]
    /\ ev = Event("power_on", "-", NoOp)
    /\ reset_seen = FALSE
    /\ clk200_edges = IdelayLatency

\* main() at the sweep, the sweep driver taken as any bus master: Spec
\* follows the hardware under every sequence of bus operations
NoEntry == [freq |-> 0, locked |-> FALSE, pass |-> FALSE, error |-> "-"]

BusMasterOnly ==
    /\ args = [build |-> FALSE, load |-> FALSE, test |-> TRUE]
    /\ main_pc = "sweep"
    /\ calls = <<"build_gen", "sweep">>
    /\ sweep_state = "Idle"
    /\ cand = 0
    /\ polls = 0
    /\ request = "none"
    /\ sweep_result = << >>
    /\ last_entry = NoEntry

Init == (PowerOn \/ LongRun) /\ BusMasterOnly

Next ==
    \/ \E level \in BOOLEAN : CpuReset(level) /\ UNCHANGED benchVars
    \/ MainPllLock /\ UNCHANGED benchVars
    \/ MainPllLoseLock /\ UNCHANGED benchVars
    \/ PllLock /\ UNCHANGED benchVars
    \/ PllLoseLock /\ UNCHANGED benchVars
    \/ \E d \in Domains : Tick(d) /\ UNCHANGED benchVars
    \/ \E op \in BusOps : SysTick(op) /\ UNCHANGED benchVars

Spec == Init /\ [][Next]_vars

----------------------------------------------------------------------------
(* main(): the command line, the steps it selects, and the frequency sweep *)
(* that --test starts.  main() passes the range and main_pll's VCO         *)
(* frequency to s7_bench_test; the sweep itself is the state machine of    *)
(* the Frequency Sweep Protocol:                                           *)
(*   Idle -> Reconfiguring -> AwaitingLock -> Testing | Failed             *)
(*        -> Recording -> Reconfiguring (next candidate) | Done.           *)
(* A candidate that is out of range is recorded without a port write.  A   *)
(* global reset while a request is in flight abandons the request and      *)
(* returns the sweep to Idle, where it takes the same candidate up again.  *)
(* SweepResult is kept as the requested frequency of every entry, and the  *)
(* entry appended last in full.                                            *)

\* s7_bench_test(freq_min=60e6, freq_max=150e6, freq_step=1e6, ...)
FreqMin == 60
FreqMaxShort == FreqMin + 40
FreqMax == 150
FreqStepNone == FreqMin - FreqMin
FreqStep == 1

Candidates == {f \in FreqMin..FreqMax : (f - FreqMin) % FreqStep = 0}
LastCandidate(f) == f + FreqStep > FreqMax

\* the clkout0 divider for a candidate, from the VCO frequency main() passes
SweepDivide(f) == MainVcoFreq \div f

\* the divider is one clkout0 can take, and the clock it gives (vco/d) is an
\* input for which the cascade PLL's VCO (input * mult / divclk) is in range
OutOfRange(f) ==
    LET d == SweepDivide(f)
    IN  ~ /\ d \in 1..ClkoutDivideMax
          /\ VcoInRange(MainVcoFreq, PllConfig.divclk_divide * d,
                        PllConfig.clkfbout_mult)

DrpOp(d) == [kind |-> "write", reg |-> "main_pll_drp", dat |-> Word(0, d)]

\* the sweep's poll of LockState: main_pll's drp_locked status
LockObserved == RegValue("main_pll_drp_locked") = Word(0, 1)

Entry(f, l, p, e) == [freq |-> f, locked |-> l, pass |-> p, error |-> e]

\* what a step of main() or of the sweep leaves alone in the hardware
CrgFrame ==
    UNCHANGED <<cpu_reset, main_pll_locked, pll_locked, rst_meta, rst,
                sys_clk_counter, reset_counter, ic_reset, reset_seen,
                clk200_edges>>

SweepFrame == UNCHANGED <<sweep_state, cand, polls, request, sweep_result,
                          last_entry>>

\* parser.parse_args(); soc = BenchSoC(); builder.build(run=args.build)
MainBuild ==
    /\ main_pc = "build"
    /\ calls' = Append(calls, IF args.build THEN "build_run" ELSE "build_gen")
    /\ main_pc' = "load"
    /\ ev' = Event("main", "-", NoOp)
    /\ CrgFrame
    /\ SweepFrame
    /\ UNCHANGED <<args, main_clkout0_divide>>

\* load_bitstream: the FPGA is configured anew, every flop at its INIT value
LoadBitstream ==
    /\ main_pll_locked' = FALSE
    /\ pll_locked' = FALSE
    /\ rst_meta' = [d \in Domains |-> ~reset_less[d]]
    /\ rst' = [d \in Domains |-> ~reset_less[d]]
    /\ sys_clk_counter' = Zero32
    /\ reset_counter' = IdelayResetCycles - 1
    /\ ic_reset' = TRUE
    /\ main_clkout0_divide' = MainConfig.clkout_divide[1]
    /\ reset_seen' = ~cpu_reset
    /\ clk200_edges' = 0
    /\ ev' = Event("load", "-", NoOp)
    /\ UNCHANGED cpu_reset

\* if args.load: prog.load_bitstream(...)
MainLoad ==
    /\ main_pc = "load"
    /\ main_pc' = "test"
    /\ IF args.load
       THEN /\ calls' = Append(calls, "load")
            /\ LoadBitstream
       ELSE /\ ev' = Event("main", "-", NoOp)
            /\ CrgFrame
            /\ UNCHANGED <<calls, main_clkout0_divide>>
    /\ SweepFrame
    /\ UNCHANGED args

\* s7_bench_test(...) is entered: SweepResult is created, first candidate
StartSweep ==
    /\ calls' = Append(calls, "sweep")
    /\ main_pc' = "sweep"
    /\ sweep_state' = "Idle"
    /\ cand' = FreqMin
    /\ polls' = 0
    /\ request' = "none"
    /\ sweep_result' = << >>
    /\ last_entry' = NoEntry

\* if args.test: s7_bench_test(...)
MainTestAlways ==
    /\ main_pc = "test"
    /\ StartSweep
    /\ ev' = Event("main", "-", NoOp)
    /\ CrgFrame
    /\ UNCHANGED <<args, main_clkout0_divide>>
MainTest ==
    /\ main_pc = "test"
    /\ IF args.test
       THEN StartSweep
       ELSE /\ main_pc' = "exit"
            /\ SweepFrame
            /\ UNCHANGED calls
    /\ ev' = Event("main", "-", NoOp)
    /\ CrgFrame
    /\ UNCHANGED <<args, main_clkout0_divide>>

\* the candidate f is taken up: recorded as OutOfRange without touching the
\* port, or written to the port (Reconfiguring)
Issue(f) ==
    /\ cand' = f
    /\ polls' = 0
    /\ IF OutOfRange(f)
       THEN /\ sweep_state' = "Recording"
            /\ sweep_result' = Append(sweep_result, f)
            /\ last_entry' = Entry(f, FALSE, FALSE, "OutOfRange")
            /\ ev' = Event("sweep_reject", "-", NoOp)
            /\ UNCHANGED <<main_clkout0_divide, request>>
       ELSE /\ sweep_state' = "Reconfiguring"
            /\ main_clkout0_divide' =
                   DrpApply(main_clkout0_divide, DrpOp(SweepDivide(f)))
            /\ request' = "pending"
            /\ ev' = Event("sweep_write", "sys", DrpOp(SweepDivide(f)))
            /\ UNCHANGED <<sweep_result, last_entry>>
    /\ CrgFrame
    /\ UNCHANGED <<args, main_pc, calls>>

\* Idle -> Reconfiguring (or the rejection of the candidate)
SweepIssue ==
    /\ main_pc = "sweep"
    /\ sweep_state = "Idle"
    /\ Issue(cand)

SweepAwaitReissue ==
    /\ main_pc = "sweep"
    /\ sweep_state = "Reconfiguring"
    /\ Issue(cand)
\* Reconfiguring -> AwaitingLock
SweepAwait ==
    /\ main_pc = "sweep"
    /\ sweep_state = "Reconfiguring"
    /\ sweep_state' = "AwaitingLock"
    /\ polls' = 0
    /\ ev' = Event("sweep_await", "-", NoOp)
    /\ CrgFrame
    /\ UNCHANGED <<args, main_pc, calls, cand, request, sweep_result,
                   last_entry, main_clkout0_divide>>

\* one poll in AwaitingLock: -> Testing on lock, -> Failed on the last poll
SweepPoll ==
    /\ main_pc = "sweep"
    /\ sweep_state = "AwaitingLock"
    /\ polls' = polls + 1
    /\ IF LockObserved
       THEN /\ sweep_state' = "Testing"
            /\ request' = "locked"
            /\ ev' = Event("sweep_lock", "-", NoOp)
       ELSE IF polls + 1 >= MaxPolls
       THEN /\ sweep_state' = "Failed"
            /\ request' = "timeout"
            /\ ev' = Event("sweep_timeout", "-", NoOp)
       ELSE /\ ev' = Event("sweep_poll", "-", NoOp)
            /\ UNCHANGED <<sweep_state, request>>
    /\ CrgFrame
    /\ UNCHANGED <<args, main_pc, calls, cand, sweep_result, last_entry,
                   main_clkout0_divide>>

\* an entry for the candidate is appended to SweepResult (-> Recording)
Record(e) ==
    /\ sweep_state' = "Recording"
    /\ sweep_result' = Append(sweep_result, e.freq)
    /\ last_entry' = e
    /\ ev' = Event("sweep_record", "-", NoOp)
    /\ CrgFrame
    /\ UNCHANGED <<args, main_pc, calls, cand, polls, request,
                   main_clkout0_divide>>

\* Testing -> Recording: the functional memory test passed or failed
SweepTest(pass) ==
    /\ main_pc = "sweep"
    /\ sweep_state = "Testing"
    /\ Record(Entry(cand, TRUE, pass, "-"))

\* Failed -> Recording: the candidate is rejected, the sweep goes on
SweepFail ==
    /\ main_pc = "sweep"
    /\ sweep_state = "Failed"
    /\ Record(Entry(cand, FALSE, FALSE, "LockTimeout"))

\* Recording -> Reconfiguring (next candidate) or -> Done (range exhausted)
SweepAdvance ==
    /\ main_pc = "sweep"
    /\ sweep_state = "Recording"
    /\ IF LastCandidate(cand)
       THEN /\ sweep_state' = "Done"
            /\ main_pc' = "exit"
            /\ ev' = Event("sweep_done", "-", NoOp)
            /\ CrgFrame
            /\ UNCHANGED <<args, calls, cand, polls, request, sweep_result,
                           last_entry, main_clkout0_divide>>
       ELSE Issue(cand + FreqStep)

\* the cpu_reset pin during the run of main(): asserted while a request is in
\* flight, the request is abandoned and the sweep returns to Idle
BenchCpuReset(level) ==
    /\ CpuReset(level)
    /\ IF ~level /\ main_pc = "sweep"
          /\ sweep_state \in {"Reconfiguring", "AwaitingLock"}
       THEN /\ sweep_state' = "Idle"
            /\ polls' = 0
            /\ request' = "abandoned"
            /\ UNCHANGED <<args, main_pc, calls, cand, sweep_result,
                           last_entry>>
       ELSE UNCHANGED benchVars

\* a step of the program main() (the sweep included)
MainStep ==
    \/ MainBuild
    \/ MainLoad
    \/ MainTest
    \/ SweepIssue
    \/ SweepAwait
    \/ SweepPoll
    \/ \E pass \in BOOLEAN : SweepTest(pass)
    \/ SweepFail
    \/ SweepAdvance

BenchInit ==
    /\ PowerOn
    /\ args \in [build : BOOLEAN, load : BOOLEAN, test : BOOLEAN]
    /\ main_pc = "build"
    /\ calls = << >>
    /\ sweep_state = "Idle"
    /\ cand = FreqMin
    /\ polls = 0
    /\ request = "none"
    /\ sweep_result = << >>
    /\ last_entry = NoEntry

BenchNext ==
    \/ MainBuild
    \/ MainLoad
    \/ MainTest
    \/ SweepIssue
    \/ SweepAwait
    \/ SweepPoll
    \/ \E pass \in BOOLEAN : SweepTest(pass)
    \/ SweepFail
    \/ SweepAdvance
    \/ \E level \in BOOLEAN : BenchCpuReset(level)
    \/ MainPllLock /\ UNCHANGED benchVars
    \/ MainPllLoseLock /\ UNCHANGED benchVars
    \/ PllLock /\ UNCHANGED benchVars
    \/ PllLoseLock /\ UNCHANGED benchVars

\* main() and the hardware events the sweep observes
BenchSpec == BenchInit /\ [][BenchNext]_vars

\* main() is a sequential program: it takes its next step when it has one
BenchFairSpec == BenchSpec /\ WF_vars(MainStep)

----------------------------------------------------------------------------
(* Properties *)

CascadeDomains == {"sys", "sys4x", "sys4x_dqs"}
ResettableDomains == {"sys_pll", "sys", "clk200", "uart"}

\* c2 is c + 1 modulo 2^32, on the halves
Succ32(c, c2) ==
    /\ c2.lo = (c.lo + 1) % HalfMod
    /\ c2.hi = (c.hi + ((c.lo + 1) \div HalfMod)) % HalfMod

\* C1: the cascade PLL's reset is the inverse of the reference stage's lock;
\* whenever the reference stage is not locked the cascade PLL is in reset and
\* not locked and the sys domain is held in reset, in the same state.
C1_CascadeResetIsInverseOfReferenceLock ==
    /\ pll_reset = ~main_pll_locked
    /\ ~main_pll_locked => /\ ~pll_locked
                           /\ rst["sys"]
                           /\ rst_meta["sys"]

\* the reference stage lost lock with the pin released while the cascade ran
C1_Witness ==
    /\ ev.kind = "main_lose_lock"
    /\ cpu_reset
    /\ sys_clk_counter = Word(0, 1)

\* C2: the reference stage's reset is the inverse of the cpu_reset pin; while
\* it is asserted the reference stage and every dependent stage read unlocked
\* (every resettable domain in reset) and no derived clock has an edge.
C2_ResetForcesUnlockedAndClocksInactive ==
    /\ main_pll_reset = ~cpu_reset
    /\ ~cpu_reset => /\ ~main_pll_locked
                     /\ ~pll_locked
                     /\ \A d \in ResettableDomains : rst[d]
                     /\ \A d \in Domains \ {"sys"} : ~ENABLED Tick(d)
                     /\ ~ENABLED (\E op \in BusOps : SysTick(op))

\* reset asserted on a system whose calibration stage was active
C2_Witness ==
    /\ ev.kind = "reset_assert"
    /\ ~cpu_reset
    /\ ~ic_reset

\* C3: no step taken while the reference stage's reset is asserted changes the
\* cycle counter or its status register.
C3_CounterHeldWhileResetAsserted ==
    [][~cpu_reset => /\ sys_clk_counter' = sys_clk_counter
                     /\ sys_clk_counter_status' = sys_clk_counter_status]_vars

\* a step taken from a state with reset asserted (the release of a reset that
\* stopped a counter which had counted to 2) left the counter at 2
C3_Witness ==
    /\ ev.kind = "reset_release"
    /\ sys_clk_counter = Word(0, 2)

\* C4: every sys edge taken out of reset makes the counter (old + 1) mod 2^32:
\* it never holds, skips or saturates, and wraps from 2^32 - 1 to 0.
C4_CounterIncrementsModulo32 ==
    [][(SysEdge(ev') /\ ~rst["sys"]) => Succ32(sys_clk_counter, sys_clk_counter')]_vars

\* the wrap: the edge that read 2^32 - 1 left the counter at 0
C4_Witness ==
    /\ SysEdge(ev)
    /\ ev.op.kind = "read"
    /\ ev.op.reg = "sys_clk_counter"
    /\ ev.op.dat = Max32
    /\ sys_clk_counter = Zero32

\* C5 as stated: without a global reset the counter returns to 0 only by
\* wrapping from 2^32 - 1.
C5_Original_NoResetButGlobal ==
    [][(~reset_seen' /\ sys_clk_counter # Zero32 /\ sys_clk_counter' = Zero32)
          => sys_clk_counter = Max32]_vars

\* C5 (amended): the counter returns to 0 only by wrapping from 2^32 - 1 or on
\* a sys edge taken while the sys domain's reset is asserted, and that reset is
\* asserted whenever the cascade PLL is not locked: any loss of lock, not only
\* a global reset, clears the counter on the next sys edge.
C5_CounterClearedOnlyByWrapOrSysReset ==
    [][/\ (sys_clk_counter # Zero32 /\ sys_clk_counter' = Zero32)
            => /\ SysEdge(ev')
               /\ sys_clk_counter = Max32 \/ rst["sys"]
       /\ ~pll_locked' => rst'["sys"]]_vars

\* no global reset ever happened, the reference stage was reconfigured (which
\* takes a sys edge out of reset, so the counter had counted), and a sys edge
\* in reset has just left the counter at 0
C5_Witness ==
    /\ ~reset_seen
    /\ main_clkout0_divide # MainConfig.clkout_divide[1]
    /\ SysEdge(ev)
    /\ rst["sys"]
    /\ sys_clk_counter = Zero32

\* C6: the status register shows the counter; a CSR read returns it; no CSR
\* access, read or write, changes it: only a sys edge does, and to the value
\* an idle cycle would give.
C6_CounterIsObservational ==
    [][/\ sys_clk_counter_status' = sys_clk_counter'
       /\ sys_clk_counter' # sys_clk_counter => SysEdge(ev')
       /\ SysEdge(ev') =>
             IF rst["sys"] THEN sys_clk_counter' = Zero32
             ELSE Succ32(sys_clk_counter, sys_clk_counter')
       /\ (SysEdge(ev') /\ ev'.op.kind = "read" /\ ev'.op.reg = "sys_clk_counter")
             => ev'.op.dat = sys_clk_counter]_vars

\* a write to the counter's register was made and the counter went on to 2
C6_Witness ==
    /\ SysEdge(ev)
    /\ ev.op.kind = "write"
    /\ ev.op.reg = "sys_clk_counter"
    /\ sys_clk_counter = Word(0, 2)

\* C7: sys4x runs at exactly 4 times sys, and sys4x_dqs comes from the same
\* PLL instance as sys4x at the same frequency, 90 degrees apart, whatever
\* divider has been written to the reference stage.
C7_Sys4xIsFourTimesSys ==
    /\ PllConfig.valid
    /\ Freq("sys4x")[1] * Freq("sys")[2] = 4 * Freq("sys")[1] * Freq("sys4x")[2]
    /\ Freq("sys4x_dqs")[1] * Freq("sys4x")[2] = Freq("sys4x")[1] * Freq("sys4x_dqs")[2]
    /\ Source("sys4x") = "pll"
    /\ Source("sys4x_dqs") = "pll"
    /\ Source("sys") = "pll"
    /\ Phase("sys4x_dqs") - Phase("sys4x") = 90

\* the reference stage has been reconfigured to 60 MHz and the cascade relocked
C7_Witness ==
    /\ main_clkout0_divide = 20
    /\ ev.kind = "pll_lock"

\* C8: while the reference stage is not locked, so in particular right after
\* it loses lock, no edge of a cascade domain is a valid one: an edge of sys
\* finds the sys reset asserted, an edge of sys4x or sys4x_dqs finds the
\* cascade PLL unlocked.
C8_NoValidCascadeEdgeAfterLockLoss ==
    [][(~main_pll_locked /\ ev'.kind = "tick" /\ ev'.dom \in CascadeDomains)
          => IF ev'.dom = "sys" THEN rst["sys"] ELSE ~pll_locked]_vars

\* the reference stage has just lost lock under a cascade that was running
\* with its calibration stage active
C8_Witness ==
    /\ ev.kind = "main_lose_lock"
    /\ sys_clk_counter = Max32
    /\ ~ic_reset

CalibInactive == rst["clk200"] \/ ic_reset
CalibActive == ~rst["clk200"] /\ ~ic_reset

\* C9 as stated: the calibration stage is inactive whenever the reference
\* stage is unlocked and is active from the first clk200 cycle after lock.
C9_Original_ActiveCycleAfterLock ==
    /\ ~main_pll_locked => CalibInactive
    /\ (main_pll_locked /\ clk200_edges >= 1) => CalibActive

\* C9 (amended): the clk200 domain is in reset whenever the reference stage is
\* unlocked; after lock the calibration stage needs nothing but clk200 edges,
\* and it becomes active on the 18th of them (2 for the reset synchroniser, 16
\* for the IDELAYCTRL reset counter), not on the first.
C9_CalibrationActiveAfterResetSequence ==
    /\ ~main_pll_locked => rst["clk200"]
    /\ (main_pll_locked /\ clk200_edges < 18) => CalibInactive
    /\ (main_pll_locked /\ clk200_edges >= 18) => CalibActive
    /\ main_pll_locked => ENABLED Tick("clk200")

\* after a global reset and re-lock the 18th clk200 edge has released ic_reset
C9_Witness ==
    /\ reset_seen
    /\ ev.kind = "tick"
    /\ ev.dom = "clk200"
    /\ clk200_edges = 18
    /\ ~ic_reset

\* C10: sys4x and sys4x_dqs never have a reset asserted; the resettable
\* domains are exactly sys_pll, sys, clk200 and uart; an edge of a reset-less
\* domain is valid exactly when its source PLL is locked.
C10_ResetLessDomainsNeverReset ==
    /\ \A d \in {"sys4x", "sys4x_dqs"} : ~rst[d] /\ ~rst_meta[d]
    /\ {d \in Domains : ~reset_less[d]} = ResettableDomains
    /\ \A d \in {"sys4x", "sys4x_dqs"} : Valid(d) = pll_locked

\* sys4x has an edge while the cascade is still locking: sys is held in reset,
\* sys4x has no reset to assert
C10_Witness ==
    /\ ev.kind = "tick"
    /\ ev.dom = "sys4x"
    /\ ~pll_locked
    /\ rst["sys"]

\* a sys edge that carried a write to main_pll's DRP register
DrpWriteEdge(e) == SysEdge(e) /\ DrpWrite(e.op)

C19_AuxiliaryClocksFixed ==
    /\ Freq("clk200")[1] = 200 * Freq("clk200")[2]
    /\ Freq("uart")[1] = 100 * Freq("uart")[2]
    /\ ClkoutDivideOf("sys") = 8
    /\ ClkoutDivideOf("sys4x") = 2
    /\ ClkoutDivideOf("sys4x_dqs") = 2
    /\ Freq("sys")[1] * Freq("sys_pll")[2] = Freq("sys_pll")[1] * Freq("sys")[2]

\* the sweep has changed the operating frequency to 60 MHz
C19_Witness ==
    /\ DrpWriteEdge(ev)
    /\ main_clkout0_divide = 20
    /\ Freq("sys")[1] = 60 * Freq("sys")[2]

----------------------------------------------------------------------------
(* Properties of main() and the sweep (BenchSpec, BenchFairSpec) *)

\* the candidates whose divider 1200 / f leaves the cascade PLL's VCO
\* (input * 8) within 800..1600 MHz: dividers 6..12, i.e. 93 MHz and above
InRangeExpected(f) == (1200 \div f) \in 6..12

Appended == Len(sweep_result') = Len(sweep_result) + 1

InFlight(st) == st \in {"Reconfiguring", "AwaitingLock"}

\* C11: the sweep goes through the candidates 60, 61, .., 150 MHz in
\* increasing order, one step at a time; SweepResult holds one entry per
\* candidate taken up so far, in that order, and all 91 at Done; a candidate
\* out of range gets an OutOfRange entry without a port write, and no
\* candidate out of range is ever in a lock attempt.
C11_SweepVisitsEveryCandidateOnce ==
    [][/\ cand' \in Candidates
       /\ cand' # cand => cand' = cand + 1 /\ sweep_state = "Recording"
       /\ sweep_result' = [i \in 1..Len(sweep_result') |-> 59 + i]
       /\ main_pc' = "sweep" =>
             Len(sweep_result') = IF sweep_state' = "Recording"
                                  THEN cand' - 59 ELSE cand' - 60
       /\ sweep_state' = "Done" => Len(sweep_result') = 91
       /\ (Appended /\ OutOfRange(cand')) =>
             /\ last_entry' = Entry(cand', FALSE, FALSE, "OutOfRange")
             /\ ev'.kind = "sweep_reject"
             /\ UNCHANGED <<main_clkout0_divide, request>>
       /\ sweep_state' \in {"Reconfiguring", "AwaitingLock", "Testing", "Failed"}
             => ~OutOfRange(cand')]_vars

\* the sweep is Done with its 91 entries, the last one for 150 MHz
C11_Witness ==
    /\ sweep_state = "Done"
    /\ Len(sweep_result) = 91
    /\ sweep_result[1] = 60
    /\ last_entry.freq = 150

\* C12: a candidate whose divider is out of range is rejected before any
\* reconfiguration: the step that takes it up writes nothing to the port and
\* leaves the divider, both locks and the pending request as they were, the
\* entry it records carries the requested frequency with the OutOfRange
\* error; a port write is only ever issued for a candidate in range, with the
\* divider computed for that candidate.
C12_OutOfRangeRejectedBeforeReconfiguration ==
    [][/\ (main_pc' = "sweep" /\ (cand' # cand \/ sweep_state = "Idle")
             /\ sweep_state' # "Idle" /\ ~InRangeExpected(cand'))
            => /\ ev'.kind = "sweep_reject"
               /\ sweep_state' = "Recording"
               /\ last_entry' = Entry(cand', FALSE, FALSE, "OutOfRange")
               /\ sweep_result' = Append(sweep_result, cand')
       /\ ev'.kind = "sweep_reject"
            => /\ ~InRangeExpected(cand')
               /\ UNCHANGED <<main_clkout0_divide, main_pll_locked,
                              pll_locked, request>>
       /\ ev'.kind = "sweep_write"
            => /\ InRangeExpected(cand')
               /\ main_clkout0_divide' = 1200 \div cand'
       /\ main_clkout0_divide' \in 6..12]_vars

\* 92 MHz (divider 13) has just been rejected; the divider is still the one
\* written for no candidate at all
C12_Witness ==
    /\ ev.kind = "sweep_reject"
    /\ cand = 92
    /\ last_entry = Entry(92, FALSE, FALSE, "OutOfRange")
    /\ main_clkout0_divide = 8
    /\ request = "none"

\* C13: the sweep enters Failed only from AwaitingLock, on the last of its
\* MaxPolls polls, with the reference stage still unlocked; it enters Testing
\* only from AwaitingLock with lock observed; from Failed the candidate is
\* recorded as LockTimeout and nothing is written to the port again for it.
C13_LockTimeoutFailsCandidate ==
    [][/\ polls' <= MaxPolls
       /\ (sweep_state' = "Failed" /\ sweep_state # "Failed")
            => /\ sweep_state = "AwaitingLock"
               /\ ~main_pll_locked
               /\ polls' = MaxPolls
               /\ request' = "timeout"
       /\ (sweep_state' = "Testing" /\ sweep_state # "Testing")
            => /\ sweep_state = "AwaitingLock"
               /\ main_pll_locked
               /\ request' = "locked"
       /\ sweep_state = "Failed"
            => /\ main_clkout0_divide' = main_clkout0_divide
               /\ sweep_state' \in {"Failed", "Recording"}
               /\ sweep_state' = "Recording"
                    => last_entry' = Entry(cand, FALSE, FALSE, "LockTimeout")
       /\ (ev'.kind = "sweep_write" /\ request = "timeout") => cand' > cand]_vars

\* 93 MHz timed out and has been recorded as rejected
C13_Witness ==
    /\ sweep_state = "Recording"
    /\ request = "timeout"
    /\ polls = MaxPolls
    /\ last_entry = Entry(93, FALSE, FALSE, "LockTimeout")

\* C14: a global reset asserted while the sweep is in AwaitingLock abandons
\* the request in flight: the sweep is in Idle after that step, both stages
\* read unlocked, SweepResult has no new entry, and Failed is entered only by
\* a timeout in AwaitingLock, never for an abandoned request.
C14_ResetAbandonsRequest ==
    [][/\ (ev'.kind = "reset_assert" /\ main_pc = "sweep"
             /\ sweep_state = "AwaitingLock")
            => /\ sweep_state' = "Idle"
               /\ request' = "abandoned"
               /\ ~main_pll_locked'
               /\ ~pll_locked'
               /\ UNCHANGED <<sweep_result, last_entry, cand>>
       /\ (sweep_state' = "Failed" /\ sweep_state # "Failed")
            => /\ sweep_state = "AwaitingLock"
               /\ ev'.kind = "sweep_timeout"
       /\ request = "abandoned" => sweep_state' # "Failed"]_vars

\* the reset came with the request for 93 MHz (divider 12) in flight
C14_Witness ==
    /\ ev.kind = "reset_assert"
    /\ sweep_state = "Idle"
    /\ request = "abandoned"
    /\ cand = 93
    /\ main_clkout0_divide = 12
    /\ ~main_pll_locked

ExpectedCalls ==
    << IF args.build THEN "build_run" ELSE "build_gen" >>
    \o (IF args.load THEN << "load" >> ELSE << >>)
    \o (IF args.test THEN << "sweep" >> ELSE << >>)

\* C20: the steps main() has carried out are at all times a prefix of: the
\* build step (the toolchain run only with --build), then the load if
\* --load, then the sweep if --test; at exit they are exactly that; the sweep
\* is running only with --test and after the load step is past; without
\* --test nothing is ever written to the port and SweepResult stays empty.
C20_ActionsInFixedOrderWhenSelected ==
    /\ Len(calls) <= Len(ExpectedCalls)
    /\ calls = SubSeq(ExpectedCalls, 1, Len(calls))
    /\ main_pc = "exit" => calls = ExpectedCalls
    /\ main_pc = "load" => Len(calls) = 1
    /\ main_pc = "test" => Len(calls) = (IF args.load THEN 2 ELSE 1)
    /\ main_pc = "sweep" => args.test /\ calls = ExpectedCalls
    /\ ev.kind \in {"sweep_write", "sweep_reject"}
         => args.test /\ calls[Len(calls)] = "sweep"
    /\ ~args.test => /\ main_clkout0_divide = 8
                     /\ sweep_state = "Idle"
                     /\ request = "none"
                     /\ sweep_result = << >>

\* all three options given: built, loaded, swept to the end
C20_Witness ==
    /\ main_pc = "exit"
    /\ args = [build |-> TRUE, load |-> TRUE, test |-> TRUE]
    /\ calls = << "build_run", "load", "sweep" >>
    /\ sweep_state = "Done"
====
